---- MODULE Spec2Model ----
(***************************************************************************)
(* State machine of the CanvasWorkspace component (scrap-paper): the       *)
(* drawing canvas, its undo history, the extension, the cut and the        *)
(* autosave scheduler.                                                     *)
(*                                                                         *)
(* The canvas bitmap is a sequence of rows, one row per RowPx pixels of    *)
(* height; a row holds one colour.  Heights are kept in pixels.            *)
(* A React state update is taken together with the render and the effects  *)
(* it causes; timeouts, image loads and file writes are separate steps     *)
(* that carry the values their closure captured.                           *)
(***************************************************************************)
EXTENDS Integers, Sequences, FiniteSets, TLC

\* ------------------------------------------------------------ constants
INITIAL_CANVAS_HEIGHT == 1200
CANVAS_WIDTH == 800
CANVAS_EXTEND_HEIGHT == 400
MAX_HISTORY == 20
AUTOSAVE_DELAY == 1000
EXTEND_MARGIN == 200
MIN_VIABLE_HEIGHT == 800
MIN_MARGIN == 50
CUT_RESIZE_DELAY == 100
AUTO_EXTEND_DELAY == 100
CUT_ANIMATION_MS == 800

\* the row granularity of the bitmap: one row per MIN_MARGIN/2 pixels
RowPx == MIN_MARGIN \div 2

\* ------------------------------------------------------------ bounds
MaxHeight == 1600
MaxCutOps == 3
MaxHistOps == 2
MaxEditOps == 2
MaxReloadOps == 3
MaxTicks == 5
MaxViewOps == 1
MaxRailOps == 2
MaxOps == 22
MaxCuts == 2

NULL == "null"
\* an absent object reference, and a present one
None == <<>>
Some(x) == <<x>>
NoTimer == 0

\* colours of a row: transparent, background colour, pen colour, and the
\* default stroke style of a freshly reset 2d context
Transparent == "T"
Bg == "B"
Pen == "P"
\* a second background colour the settings can choose
AltBg == "A"
DefaultStyle == "K"

CURRENT_CANVAS_FILENAME == "current"

Dirs == {"A", "B"}

\* a directory: file name -> image (a sequence of rows)
NoFiles == [n \in {} |-> <<>>]
WriteFile(files, name, img) ==
  [n \in DOMAIN files \cup {name} |-> IF n = name THEN img ELSE files[n]]

Rows(h) == h \div RowPx

\* fixed point: a scale factor counts 1/ScaleUnit, a pointer coordinate in
\* the buffer counts 1/SubPx pixel
ScaleUnit == 1000
SubPx == 100

\* the row a buffer coordinate y (in 1/SubPx pixel) falls in
RowOf(y) == (y \div (RowPx * SubPx)) + 1

Min(a, b) == IF a < b THEN a ELSE b
Max(a, b) == IF a > b THEN a ELSE b
Abs(a) == IF a < 0 THEN -a ELSE a
Last(s) == s[Len(s)]
Front(s) == SubSeq(s, 1, Len(s) - 1)

\* ------------------------------------------------------------ the 2d canvas
\* setting canvas.height resets the bitmap to transparent black
Blank(h) == [i \in 1..Rows(h) |-> Transparent]

\* ctx.fillRect(0, 0, CANVAS_WIDTH, h), clipped to the bitmap
FillRect(buf, h, color) ==
  [i \in 1..Len(buf) |-> IF i <= Rows(h) THEN color ELSE buf[i]]

\* ctx.getImageData(0, y, CANVAS_WIDTH, h): rows outside the bitmap read
\* as transparent black
GetImageData(buf, y, h) ==
  [i \in 1..Rows(h) |->
     IF Rows(y) + i <= Len(buf) THEN buf[Rows(y) + i] ELSE Transparent]

\* ctx.putImageData(img, 0, 0): replaces the rows, alpha included
PutImageData(buf, img) ==
  [i \in 1..Len(buf) |-> IF i <= Len(img) THEN img[i] ELSE buf[i]]

\* ctx.drawImage(img, 0, 0): source-over, transparent rows leave the target
DrawImage(buf, img) ==
  [i \in 1..Len(buf) |->
     IF i <= Len(img) /\ img[i] # Transparent THEN img[i] ELSE buf[i]]

\* ctx.stroke(): paints every row of the current path
StrokePath(buf, rows, color) ==
  [i \in 1..Len(buf) |-> IF i \in rows THEN color ELSE buf[i]]

ResetCtx == [pt |-> -1, rows |-> {}, style |-> DefaultStyle]

\* ctx.beginPath()
BeginPath(c) == [c EXCEPT !.pt = -1, !.rows = {}]

\* ctx.lineTo(x, y): with an empty path it only sets the current point
LineTo(c, y) ==
  IF c.pt = -1 THEN [c EXCEPT !.pt = y]
  ELSE [c EXCEPT !.pt = y,
                 !.rows = c.rows \cup (Min(RowOf(c.pt), RowOf(y))..Max(RowOf(c.pt), RowOf(y)))]

VARIABLES
  directoryHandle, backgroundColor,
  canvasHeight, canvas, ctx, canUndo, hoveredScissorY, cutAnimation,
  canvasOffsetY, isDrawing, isExtending, needsExtension, historyRef,
  skipBackgroundFillRef, pendingRestoreRef, autoSaveTimeoutRef,
  timers, saves, loads, exts, cuts, animTimers, sink, now,
  zoom, responsiveScale,
  getImageDataThrows,
  shadow, last, ops

progVars == <<directoryHandle, backgroundColor,
  canvasHeight, canvas, ctx, canUndo, hoveredScissorY, cutAnimation,
  canvasOffsetY, isDrawing, isExtending, needsExtension, historyRef,
  skipBackgroundFillRef, pendingRestoreRef, autoSaveTimeoutRef,
  timers, saves, loads, exts, cuts, animTimers, sink, now>>

\* the view: zoom and responsiveScale, in units of 1/ScaleUnit
view == <<zoom, responsiveScale>>

\* the environment: whether ctx.getImageData throws when captureSnapshot
\* calls it on the whole buffer
env == <<getImageDataThrows>>

vars == <<progVars, view, env, shadow, last, ops>>

\* ------------------------------------------------------------ render
\* The commit of a changed canvasHeight and the two effects that depend on
\* it: the canvas element gets the new height (bitmap reset), the
\* background effect fills it unless skipBackgroundFillRef is set, the
\* pending-restore effect puts a held snapshot back.
BackgroundEffect(buf, h, bg, skip) ==
  IF skip THEN buf ELSE FillRect(buf, h, bg)

PendingRestoreEffect(buf, pending) ==
  IF pending = None THEN buf ELSE PutImageData(buf, pending[1].imageData)

Commit(h, bg, skip, pending) ==
  PendingRestoreEffect(BackgroundEffect(Blank(h), h, bg, skip), pending)

\* setCanvasHeight(h) from a handler that holds no snapshot to restore;
\* React bails out when the value is unchanged
SetCanvasHeight(h) ==
  IF h = canvasHeight
  THEN UNCHANGED <<canvasHeight, canvas, ctx, skipBackgroundFillRef, pendingRestoreRef>>
  ELSE /\ canvasHeight' = h
       /\ canvas' = Commit(h, backgroundColor, skipBackgroundFillRef, pendingRestoreRef)
       /\ ctx' = ResetCtx
       /\ skipBackgroundFillRef' = FALSE
       /\ pendingRestoreRef' = None

\* ------------------------------------------------------------ history
Snapshot(buf, h) == [imageData |-> GetImageData(buf, 0, h), height |-> h]

PushSnapshotNoEvict(history, snapshot) == Append(history, snapshot)

PushSnapshot(history, snapshot) ==
  LET updatedHistory == Append(history, snapshot)
  IN IF Len(updatedHistory) > MAX_HISTORY THEN Tail(updatedHistory) ELSE updatedHistory

AfterCaptureFailureDrops(history) == <<>>
\* the history the catch block of captureSnapshot leaves
AfterCaptureFailure(history) == history

\* captureSnapshot() of a closure that captured canvasHeight = h; `shadow`
\* keeps what the buffer really was at that moment, and who asked
captureSnapshot(h, by) ==
  IF getImageDataThrows
  THEN /\ historyRef' = AfterCaptureFailure(historyRef)
       /\ UNCHANGED <<canUndo, shadow>>
  ELSE /\ historyRef' = PushSnapshot(historyRef, Snapshot(canvas, h))
       /\ canUndo' = (Len(historyRef') > 0)
       /\ shadow' = Append(shadow, [imageData |-> canvas, height |-> canvasHeight, by |-> by])

\* the environment makes captureSnapshot's getImageData throw, or stops
\* doing so
ReadFailure(throws) ==
  /\ throws # getImageDataThrows
  /\ getImageDataThrows' = throws
  /\ last' = [op |-> "readFailure", throws |-> throws]
  /\ UNCHANGED <<progVars, view, shadow, ops>>

\* ------------------------------------------------------------ autosave
NewTimerId(ts) == CHOOSE n \in 1..(Cardinality(ts) + 1) : \A t \in ts : t.id # n

ClearTimeoutKeeps(ts, id) == ts
ClearTimeout(ts, id) == {t \in ts : t.id # id}

scheduleAutoSaveAnyTarget(d) ==
  LET live == IF autoSaveTimeoutRef # NoTimer
              THEN ClearTimeout(timers, autoSaveTimeoutRef) ELSE timers
      id == NewTimerId(live)
  IN /\ timers' = live \cup {[id |-> id, delay |-> AUTOSAVE_DELAY, dir |-> d]}
     /\ autoSaveTimeoutRef' = id

\* scheduleAutoSave() of a closure that captured directoryHandle = d
scheduleAutoSave(d) ==
  IF d = NULL
  THEN UNCHANGED <<autoSaveTimeoutRef, timers>>
  ELSE LET live == IF autoSaveTimeoutRef # NoTimer
                   THEN ClearTimeout(timers, autoSaveTimeoutRef) ELSE timers
           id == NewTimerId(live)
       IN /\ timers' = live \cup {[id |-> id, delay |-> AUTOSAVE_DELAY, dir |-> d]}
          /\ autoSaveTimeoutRef' = id

Ev(op) == [op |-> op]

\* ------------------------------------------------------------ Init
Init ==
  /\ directoryHandle = "A"
  /\ backgroundColor = Bg
  /\ canvasHeight = INITIAL_CANVAS_HEIGHT
  /\ canvas = FillRect(Blank(INITIAL_CANVAS_HEIGHT), INITIAL_CANVAS_HEIGHT, Bg)
  /\ ctx = ResetCtx
  /\ canUndo = FALSE
  /\ hoveredScissorY = -1
  /\ cutAnimation = None
  /\ canvasOffsetY = 0
  /\ isDrawing = FALSE
  /\ isExtending = FALSE
  /\ needsExtension = FALSE
  /\ historyRef = <<>>
  /\ skipBackgroundFillRef = FALSE
  /\ pendingRestoreRef = None
  /\ autoSaveTimeoutRef = NoTimer
  /\ timers = {}
  /\ saves = {}
  /\ loads = {}
  /\ exts = {}
  /\ cuts = {}
  /\ animTimers = 0
  /\ sink = [d \in Dirs |-> NoFiles]
  /\ now = 0
  /\ zoom = ScaleUnit
  /\ responsiveScale = ScaleUnit
  /\ getImageDataThrows = FALSE
  /\ shadow = <<>>
  /\ last = Ev("init")
  /\ ops = 0

\* ------------------------------------------------------------ strokes

\* zoom * responsiveScale
ScaleProduct(z, s) == (z * s) \div ScaleUnit

ScreenToBufferZoomOnly(offset, z, s) ==
  (offset * SubPx * ScaleUnit + (z \div 2)) \div z

\* (event.clientY - rect.top) / (zoom * responsiveScale), to the nearest
\* 1/SubPx pixel; offset in screen pixels
ScreenToBuffer(offset, z, s) ==
  (offset * SubPx * ScaleUnit + (ScaleProduct(z, s) \div 2)) \div ScaleProduct(z, s)

\* the screen offset (in 1/SubPx pixel) of buffer coordinate y
BufferToScreen(y, z, s) == (y * ScaleProduct(z, s)) \div ScaleUnit

handlePointerDown(offsetY, color) ==
  /\ cutAnimation = None
  /\ ~isDrawing
  /\ isDrawing' = TRUE
  /\ captureSnapshot(canvasHeight, "stroke")
  /\ ctx' = [pt |-> ScreenToBuffer(offsetY, zoom, responsiveScale), rows |-> {},
             style |-> color]
  /\ ops' = ops + 1
  /\ UNCHANGED <<view, env>>
  /\ last' = [op |-> "pointerDown", offset |-> offsetY, history |-> historyRef]
  /\ UNCHANGED <<directoryHandle, backgroundColor, canvasHeight, canvas,
       hoveredScissorY, cutAnimation, canvasOffsetY, isExtending, needsExtension,
       skipBackgroundFillRef, pendingRestoreRef, autoSaveTimeoutRef,
       timers, saves, loads, exts, cuts, animTimers, sink, now>>

\* y > canvasHeight - 200 of handlePointerMove, y in 1/SubPx pixel
NearBottom(y, h) == y > (h - EXTEND_MARGIN) * SubPx

MoveGuardOff(flag) == TRUE
\* if (!isDrawing.current) return, at the top of handlePointerMove
MoveGuard(flag) == flag

handlePointerMove(offsetY) ==
  /\ MoveGuard(isDrawing)
  /\ NearBottom(ScreenToBuffer(offsetY, zoom, responsiveScale), canvasHeight)
       => canvasHeight + CANVAS_EXTEND_HEIGHT <= MaxHeight
  /\ ctx' = LineTo(ctx, ScreenToBuffer(offsetY, zoom, responsiveScale))
  /\ canvas' = StrokePath(canvas, ctx'.rows, ctx.style)
  /\ needsExtension' =
       (needsExtension
          \/ NearBottom(ScreenToBuffer(offsetY, zoom, responsiveScale), canvasHeight))
  /\ ops' = ops
  /\ UNCHANGED <<view, env>>
  /\ last' = [op |-> "pointerMove", offset |-> offsetY]
  /\ UNCHANGED <<directoryHandle, backgroundColor, canvasHeight, canUndo,
       hoveredScissorY, cutAnimation, canvasOffsetY, isDrawing, isExtending,
       historyRef, skipBackgroundFillRef, pendingRestoreRef, autoSaveTimeoutRef,
       timers, saves, loads, exts, cuts, animTimers, sink, now, shadow>>

\* ------------------------------------------------------------ extension
ExtendedHeight(h) == h + CANVAS_EXTEND_HEIGHT

ExtGuardOff(flag) == FALSE
\* the re-entrancy test at the top of extendCanvas
ExtGuard(flag) == flag

\* extendCanvas() of a closure that captured canvasHeight = h,
\* directoryHandle = d and backgroundColor = bg
extendCanvas(h, d, bg, origin) ==
  IF ExtGuard(isExtending)
  THEN UNCHANGED <<isExtending, historyRef, canUndo, shadow, exts, canvasHeight,
         canvas, ctx, skipBackgroundFillRef, pendingRestoreRef>>
  ELSE /\ isExtending' = TRUE
       /\ captureSnapshot(h, origin)
       /\ exts' = exts \cup {[phase |-> "timeout", newHeight |-> ExtendedHeight(h),
                             image |-> canvas, dir |-> d, bg |-> bg,
                             origin |-> origin, pre |-> canvas,
                             preHeight |-> canvasHeight, steady |-> TRUE]}
       /\ SetCanvasHeight(ExtendedHeight(h))

ExtendButton ==
  /\ canvasHeight + CANVAS_EXTEND_HEIGHT <= MaxHeight
  /\ extendCanvas(canvasHeight, directoryHandle, backgroundColor, "button")
  /\ ops' = ops + 1
  /\ UNCHANGED <<view, env>>
  /\ last' = [op |-> "extendCanvas", blocked |-> isExtending,
              height |-> canvasHeight, canvas |-> canvas,
              history |-> historyRef, exts |-> exts]
  /\ UNCHANGED <<directoryHandle, backgroundColor, hoveredScissorY, cutAnimation,
       canvasOffsetY, isDrawing, needsExtension, autoSaveTimeoutRef,
       timers, saves, loads, cuts, animTimers, sink, now>>

\* the setTimeout(0) callback of extendCanvas
ExtTimeout(e) ==
  /\ e \in exts /\ e.phase = "timeout"
  /\ canvas' = FillRect(canvas, e.newHeight, e.bg)
  /\ exts' = (exts \ {e}) \cup
       {[e EXCEPT !.phase = "load",
                  !.steady = (canvasHeight = e.newHeight
                              /\ canvas = FillRect(Blank(canvasHeight), canvasHeight, e.bg))]}
  /\ ops' = ops
  /\ UNCHANGED <<view, env>>
  /\ last' = Ev("extTimeout")
  /\ UNCHANGED <<directoryHandle, backgroundColor, canvasHeight, ctx, canUndo,
       hoveredScissorY, cutAnimation, canvasOffsetY, isDrawing, isExtending,
       needsExtension, historyRef, skipBackgroundFillRef, pendingRestoreRef,
       autoSaveTimeoutRef, timers, saves, loads, cuts, animTimers, sink, now, shadow>>

\* img.onload of extendCanvas
ExtLoad(e) ==
  /\ e \in exts /\ e.phase = "load"
  /\ canvas' = DrawImage(canvas, e.image)
  /\ isExtending' = FALSE
  /\ scheduleAutoSave(e.dir)
  /\ exts' = exts \ {e}
  /\ ops' = ops
  /\ UNCHANGED <<view, env>>
  /\ last' = [op |-> "extLoad", ext |-> e,
              steady |-> (e.steady /\ canvasHeight = e.newHeight
                          /\ canvas = FillRect(Blank(canvasHeight), canvasHeight, e.bg))]
  /\ UNCHANGED <<directoryHandle, backgroundColor, canvasHeight, ctx, canUndo,
       hoveredScissorY, cutAnimation, canvasOffsetY, isDrawing,
       needsExtension, historyRef, skipBackgroundFillRef, pendingRestoreRef,
       saves, loads, cuts, animTimers, sink, now, shadow>>

\* the setTimeout(0) callback of extendCanvas finds no 2d context
ExtNoContext(e) ==
  /\ e \in exts /\ e.phase = "timeout"
  /\ isExtending' = FALSE
  /\ exts' = exts \ {e}
  /\ ops' = ops
  /\ UNCHANGED <<view, env>>
  /\ last' = Ev("extNoContext")
  /\ UNCHANGED <<directoryHandle, backgroundColor, canvasHeight, canvas, ctx, canUndo,
       hoveredScissorY, cutAnimation, canvasOffsetY, isDrawing,
       needsExtension, historyRef, skipBackgroundFillRef, pendingRestoreRef,
       autoSaveTimeoutRef, timers, saves, loads, cuts, animTimers, sink, now, shadow>>

ExtErrorLeaks(e) ==
  /\ e \in exts /\ e.phase = "load"
  /\ exts' = exts \ {e}
  /\ ops' = ops
  /\ UNCHANGED <<view, env>>
  /\ last' = Ev("extError")
  /\ UNCHANGED <<directoryHandle, backgroundColor, canvasHeight, canvas, ctx, canUndo,
       hoveredScissorY, cutAnimation, canvasOffsetY, isDrawing, isExtending,
       needsExtension, historyRef, skipBackgroundFillRef, pendingRestoreRef,
       autoSaveTimeoutRef, timers, saves, loads, cuts, animTimers, sink, now, shadow>>

\* img.onerror of extendCanvas
ExtError(e) ==
  /\ e \in exts /\ e.phase = "load"
  /\ isExtending' = FALSE
  /\ exts' = exts \ {e}
  /\ ops' = ops
  /\ UNCHANGED <<view, env>>
  /\ last' = Ev("extError")
  /\ UNCHANGED <<directoryHandle, backgroundColor, canvasHeight, canvas, ctx, canUndo,
       hoveredScissorY, cutAnimation, canvasOffsetY, isDrawing,
       needsExtension, historyRef, skipBackgroundFillRef, pendingRestoreRef,
       autoSaveTimeoutRef, timers, saves, loads, cuts, animTimers, sink, now, shadow>>

finalizeStrokeAlsoSaves ==
  /\ isDrawing' = FALSE
  /\ IF needsExtension
     THEN /\ needsExtension' = FALSE
          /\ extendCanvas(canvasHeight, directoryHandle, backgroundColor, "strokeEnd")
          /\ scheduleAutoSave(directoryHandle)
     ELSE /\ scheduleAutoSave(directoryHandle)
          /\ UNCHANGED <<needsExtension, isExtending, historyRef, canUndo, shadow,
               exts, canvasHeight, canvas, ctx, skipBackgroundFillRef,
               pendingRestoreRef>>

\* pointer up, leave and cancel all call finalizeStroke
finalizeStroke ==
  /\ isDrawing' = FALSE
  /\ IF needsExtension
     THEN /\ needsExtension' = FALSE
          /\ extendCanvas(canvasHeight, directoryHandle, backgroundColor, "strokeEnd")
          /\ UNCHANGED <<autoSaveTimeoutRef, timers>>
     ELSE /\ scheduleAutoSave(directoryHandle)
          /\ UNCHANGED <<needsExtension, isExtending, historyRef, canUndo, shadow,
               exts, canvasHeight, canvas, ctx, skipBackgroundFillRef,
               pendingRestoreRef>>

handlePointerUp ==
  /\ isDrawing
  /\ (needsExtension /\ ~isExtending) => canvasHeight + CANVAS_EXTEND_HEIGHT <= MaxHeight
  /\ finalizeStroke
  /\ ops' = ops
  /\ UNCHANGED <<view, env>>
  /\ last' = [op |-> "pointerUp", extend |-> needsExtension, blocked |-> isExtending,
              height |-> canvasHeight, canvas |-> canvas,
              history |-> historyRef, exts |-> exts]
  /\ UNCHANGED <<directoryHandle, backgroundColor, hoveredScissorY, cutAnimation,
       canvasOffsetY, saves, loads, cuts, animTimers, sink, now>>

\* the stroke touched a row within EXTEND_MARGIN of the bottom of a buffer
\* of height h: its current point (the pointer-down point while no segment
\* is drawn) or a row of its path lies below h - EXTEND_MARGIN
TouchedBottom(c, h) ==
  \/ c.pt # -1 /\ NearBottom(c.pt, h)
  \/ \E r \in c.rows : r > Rows(h - EXTEND_MARGIN)

\* the ways a pointer ends a stroke: onPointerUp, onPointerLeave and
\* onPointerCancel of the canvas
PointerEnds == {"up", "leave", "cancel"}

\* handlePointerUp as the canvas element calls it for any of the three
\* events, whether a stroke is under way or not
PointerEnd(via) ==
  /\ (needsExtension /\ ~isExtending) => canvasHeight + CANVAS_EXTEND_HEIGHT <= MaxHeight
  /\ finalizeStroke
  /\ ops' = ops
  /\ UNCHANGED <<view, env>>
  /\ last' = [op |-> "pointerEnd", via |-> via, wasDrawing |-> isDrawing,
              extend |-> needsExtension, blocked |-> isExtending,
              touched |-> TouchedBottom(ctx, canvasHeight),
              height |-> canvasHeight, timers |-> timers,
              ref |-> autoSaveTimeoutRef, exts |-> exts]
  /\ UNCHANGED <<directoryHandle, backgroundColor, hoveredScissorY, cutAnimation,
       canvasOffsetY, saves, loads, cuts, animTimers, sink, now>>

\* ------------------------------------------------------------ clear, undo
handleClear ==
  /\ captureSnapshot(canvasHeight, "clear")
  /\ canvas' = FillRect(canvas, canvasHeight, backgroundColor)
  /\ ctx' = BeginPath(ctx)
  /\ hoveredScissorY' = -1
  /\ needsExtension' = FALSE
  /\ scheduleAutoSave(directoryHandle)
  /\ ops' = ops + 1
  /\ UNCHANGED <<view, env>>
  /\ last' = [op |-> "clear", timers |-> timers, history |-> historyRef]
  /\ UNCHANGED <<directoryHandle, backgroundColor, canvasHeight, cutAnimation,
       canvasOffsetY, isDrawing, isExtending, skipBackgroundFillRef,
       pendingRestoreRef, saves, loads, exts, cuts, animTimers, sink, now>>

\* restoreSnapshot(snapshot), with the render it causes when the heights differ
restoreSnapshot(snapshot) ==
  IF canvasHeight # snapshot.height
  THEN /\ canvasHeight' = snapshot.height
       /\ canvas' = Commit(snapshot.height, backgroundColor, TRUE, Some(snapshot))
       /\ ctx' = ResetCtx
       /\ skipBackgroundFillRef' = FALSE
       /\ pendingRestoreRef' = None
  ELSE /\ canvas' = PutImageData(canvas, snapshot.imageData)
       /\ ctx' = BeginPath(ctx)
       /\ UNCHANGED <<canvasHeight, skipBackgroundFillRef, pendingRestoreRef>>

handleUndo ==
  /\ Len(historyRef) > 0
  /\ historyRef' = Front(historyRef)
  /\ canUndo' = (Len(historyRef') > 0)
  /\ restoreSnapshot(Last(historyRef))
  /\ scheduleAutoSave(directoryHandle)
  /\ shadow' = Front(shadow)
  /\ ops' = ops
  /\ UNCHANGED <<view, env>>
  /\ last' = [op |-> "undo", snapshot |-> Last(historyRef), was |-> Last(shadow),
              quiet |-> (exts = {} /\ cuts = {} /\ loads = {} /\ ~isDrawing)]
  /\ UNCHANGED <<directoryHandle, backgroundColor, hoveredScissorY, cutAnimation,
       canvasOffsetY, isDrawing, isExtending, needsExtension,
       saves, loads, exts, cuts, animTimers, sink, now>>

handleUndoEmptySchedules ==
  /\ Len(historyRef) = 0
  /\ scheduleAutoSave(directoryHandle)
  /\ ops' = ops
  /\ UNCHANGED <<view, env>>
  /\ last' = Ev("undoEmpty")
  /\ UNCHANGED <<directoryHandle, backgroundColor, canvasHeight, canvas, ctx,
       canUndo, hoveredScissorY, cutAnimation, canvasOffsetY, isDrawing,
       isExtending, needsExtension, historyRef, skipBackgroundFillRef,
       pendingRestoreRef, saves, loads, exts, cuts, animTimers, sink, now, shadow>>

handleUndoEmpty ==
  /\ Len(historyRef) = 0
  /\ ops' = ops
  /\ UNCHANGED <<view, env>>
  /\ last' = Ev("undoEmpty")
  /\ UNCHANGED <<progVars, shadow>>

\* ------------------------------------------------------------ autosave timer
\* the timeout callback of scheduleAutoSave, up to canvas.toBlob in
\* saveCurrentCanvas
AutoSaveFire(t) ==
  /\ t \in timers
  /\ timers' = timers \ {t}
  /\ autoSaveTimeoutRef' = NoTimer
  /\ saves' = saves \cup {[dir |-> t.dir, blob |-> canvas]}
  /\ ops' = ops
  /\ UNCHANGED <<view, env>>
  /\ last' = Ev("autoSaveFire")
  /\ UNCHANGED <<directoryHandle, backgroundColor, canvasHeight, canvas, ctx,
       canUndo, hoveredScissorY, cutAnimation, canvasOffsetY, isDrawing,
       isExtending, needsExtension, historyRef, skipBackgroundFillRef,
       pendingRestoreRef, loads, exts, cuts, animTimers, sink, now, shadow>>

\* saveCurrentCanvas: the four awaits succeed
SaveOk(s) ==
  /\ s \in saves
  /\ saves' = saves \ {s}
  /\ sink' = [sink EXCEPT ![s.dir] = WriteFile(@, CURRENT_CANVAS_FILENAME, s.blob)]
  /\ ops' = ops
  /\ UNCHANGED <<view, env>>
  /\ last' = Ev("saveOk")
  /\ UNCHANGED <<directoryHandle, backgroundColor, canvasHeight, canvas, ctx,
       canUndo, hoveredScissorY, cutAnimation, canvasOffsetY, isDrawing,
       isExtending, needsExtension, historyRef, skipBackgroundFillRef,
       pendingRestoreRef, autoSaveTimeoutRef, timers, loads, exts, cuts,
       animTimers, now, shadow>>

SaveFailResets(s) ==
  /\ s \in saves
  /\ saves' = saves \ {s}
  /\ historyRef' = <<>>
  /\ canUndo' = FALSE
  /\ isDrawing' = FALSE
  /\ ops' = ops
  /\ UNCHANGED <<view, env>>
  /\ last' = [op |-> "saveFail", alert |-> FALSE]
  /\ UNCHANGED <<directoryHandle, backgroundColor, canvasHeight, canvas, ctx,
       hoveredScissorY, cutAnimation, canvasOffsetY,
       isExtending, needsExtension, skipBackgroundFillRef,
       pendingRestoreRef, autoSaveTimeoutRef, timers, loads, exts, cuts,
       animTimers, sink, now, shadow>>

\* saveCurrentCanvas: one of the awaits rejects, the catch logs it
SaveFail(s) ==
  /\ s \in saves
  /\ saves' = saves \ {s}
  /\ ops' = ops
  /\ UNCHANGED <<view, env>>
  /\ last' = [op |-> "saveFail", alert |-> FALSE]
  /\ UNCHANGED <<directoryHandle, backgroundColor, canvasHeight, canvas, ctx,
       canUndo, hoveredScissorY, cutAnimation, canvasOffsetY, isDrawing,
       isExtending, needsExtension, historyRef, skipBackgroundFillRef,
       pendingRestoreRef, autoSaveTimeoutRef, timers, loads, exts, cuts,
       animTimers, sink, now, shadow>>

\* saveCurrentCanvas: toBlob resolves with null, the function returns
SaveNoBlob(s) ==
  /\ s \in saves
  /\ saves' = saves \ {s}
  /\ ops' = ops
  /\ UNCHANGED <<view, env>>
  /\ last' = [op |-> "saveNoBlob", alert |-> FALSE]
  /\ UNCHANGED <<directoryHandle, backgroundColor, canvasHeight, canvas, ctx,
       canUndo, hoveredScissorY, cutAnimation, canvasOffsetY, isDrawing,
       isExtending, needsExtension, historyRef, skipBackgroundFillRef,
       pendingRestoreRef, autoSaveTimeoutRef, timers, loads, exts, cuts,
       animTimers, sink, now, shadow>>

\* ------------------------------------------------------------ cut
\* wall clock: now counts ticks of 1/TicksPerSecond second from StartClock
\* (local time; month as Date.getMonth() gives it)
TicksPerSecond == 2
StartClock == [year |-> 2025, month |-> 8, date |-> 9,
               hours |-> 23, minutes |-> 59, seconds |-> 58]

\* new Date() at tick t, by its getters
DateAt(t) ==
  LET sec == StartClock.seconds + (t \div TicksPerSecond)
      min == StartClock.minutes + (sec \div 60)
      hrs == StartClock.hours + (min \div 60)
  IN [year |-> StartClock.year, month |-> StartClock.month,
      date |-> StartClock.date + (hrs \div 24),
      hours |-> hrs % 24, minutes |-> min % 60, seconds |-> sec % 60,
      ms |-> (t % TicksPerSecond) * (1000 \div TicksPerSecond)]

\* String(n).padStart(2, '0')
PadStart2(n) == IF n < 10 THEN "0" \o ToString(n) ELSE ToString(n)

generateFilenameMs(t) ==
  ToString(DateAt(t).seconds) \o "." \o ToString(DateAt(t).ms) \o ".png"

\* the file name of a cut whose write is issued at tick t
generateFilename(t) ==
  LET d == DateAt(t)
  IN ToString(d.year) \o "-" \o PadStart2(d.month + 1) \o "-" \o PadStart2(d.date)
       \o "_" \o PadStart2(d.hours) \o PadStart2(d.minutes) \o PadStart2(d.seconds)
       \o ".png"


\* hover positions offered to the rail (before clamping)
RailYs == {200, 300}

\* Math.max(50, Math.min(canvasHeight - 50, relativeY)), in 1/SubPx pixel
Clamp(h, relativeY) ==
  Max(MIN_MARGIN * SubPx, Min((h - MIN_MARGIN) * SubPx, relativeY))

\* Math.round of a coordinate in 1/SubPx pixel, in pixels
MathRound(y) == (y + (SubPx \div 2)) \div SubPx

\* onMouseMove of the scissor rail at screen offset offsetY
RailMove(offsetY) ==
  /\ directoryHandle # NULL
  /\ hoveredScissorY' =
       MathRound(Clamp(canvasHeight, ScreenToBuffer(offsetY, zoom, responsiveScale)))
  /\ hoveredScissorY' # hoveredScissorY
  /\ ops' = ops
  /\ UNCHANGED <<view, env>>
  /\ last' = [op |-> "railMove", offset |-> offsetY]
  /\ UNCHANGED <<directoryHandle, backgroundColor, canvasHeight, canvas, ctx,
       canUndo, cutAnimation, canvasOffsetY, isDrawing, isExtending,
       needsExtension, historyRef, skipBackgroundFillRef, pendingRestoreRef,
       autoSaveTimeoutRef, timers, saves, loads, exts, cuts, animTimers, sink,
       now, shadow>>

UpperPiece(buf, y) == GetImageData(buf, 0, y)
LowerPieceFromTop(buf, h, y) == GetImageData(buf, 0, h - y)
LowerPiece(buf, h, y) == GetImageData(buf, y, h - y)
CutHeight(h, y) == h - y

\* onClick of the rail: handleScissorClick(hoveredScissorY) up to
\* upperCanvas.toBlob
handleScissorClick(y) ==
  /\ y # -1
  /\ IF directoryHandle = NULL
     THEN /\ ops' = ops + 1
          /\ last' = [op |-> "scissorClick", y |-> y, h |-> canvasHeight,
                      history |-> historyRef, files |-> NoFiles]
          /\ UNCHANGED <<progVars, view, env, shadow>>
     ELSE /\ y < canvasHeight
          /\ Cardinality(cuts) < MaxCuts
          /\ (CutHeight(canvasHeight, y) < MIN_VIABLE_HEIGHT)
                => canvasHeight + CANVAS_EXTEND_HEIGHT <= MaxHeight
          /\ captureSnapshot(canvasHeight, "cut")
          /\ cuts' = cuts \cup {[phase |-> "write", y |-> y, h |-> canvasHeight,
                                 dir |-> directoryHandle, bg |-> backgroundColor,
                                 upper |-> UpperPiece(canvas, y), lower |-> <<>>,
                                 pre |-> canvas, hist |-> historyRef, ok |-> TRUE,
                                 wrote |-> FALSE]}
          /\ cutAnimation' = Some([height |-> y, lowerHeight |-> canvasHeight - y])
          /\ canvasOffsetY' = y
          /\ animTimers' = animTimers + 1
          /\ ops' = ops + 1
          /\ UNCHANGED <<view, env>>
          /\ last' = [op |-> "scissorClick", y |-> y, h |-> canvasHeight,
                      history |-> historyRef, files |-> sink[directoryHandle]]
          /\ UNCHANGED <<directoryHandle, backgroundColor, canvasHeight, canvas, ctx,
               hoveredScissorY, isDrawing, isExtending, needsExtension,
               skipBackgroundFillRef, pendingRestoreRef, autoSaveTimeoutRef, timers,
               saves, loads, exts, sink, now>>

\* the setTimeout(800) callback that ends the cut animation
AnimEnd ==
  /\ animTimers > 0
  /\ animTimers' = animTimers - 1
  /\ cutAnimation' = None
  /\ canvasOffsetY' = 0
  /\ ops' = ops
  /\ UNCHANGED <<view, env>>
  /\ last' = Ev("animEnd")
  /\ UNCHANGED <<directoryHandle, backgroundColor, canvasHeight, canvas, ctx,
       canUndo, hoveredScissorY, isDrawing, isExtending, needsExtension,
       historyRef, skipBackgroundFillRef, pendingRestoreRef, autoSaveTimeoutRef,
       timers, saves, loads, exts, cuts, sink, now, shadow>>

\* toBlob callback: the four awaits succeed, the rest of the try block runs
CutWriteOk(c) ==
  /\ c \in cuts /\ c.phase = "write"
  /\ sink' = [sink EXCEPT ![c.dir] = WriteFile(@, generateFilename(now), c.upper)]
  /\ hoveredScissorY' = -1
  /\ cuts' = (cuts \ {c}) \cup
       {[c EXCEPT !.phase = "resize", !.wrote = TRUE,
                  !.lower = LowerPiece(canvas, c.h, c.y),
                  !.ok = (canvas = c.pre /\ canvasHeight = c.h)]}
  /\ ops' = ops
  /\ UNCHANGED <<view, env>>
  /\ last' = [op |-> "cutWriteOk", cut |-> c, onImageSaved |-> Some(generateFilename(now)),
              files |-> sink[c.dir]]
  /\ UNCHANGED <<directoryHandle, backgroundColor, canvasHeight, canvas, ctx,
       canUndo, cutAnimation, canvasOffsetY, isDrawing, isExtending,
       needsExtension, historyRef, skipBackgroundFillRef, pendingRestoreRef,
       autoSaveTimeoutRef, timers, saves, loads, exts, animTimers, now, shadow>>

WriteSteps == {"getFileHandle", "createWritable", "write", "close"}

\* what a write that rejects at `step` leaves in the directory:
\* getFileHandle(create) has made an empty file when it was the one to fail later
FailedWrite(files, name, step) ==
  IF step = "getFileHandle" \/ name \in DOMAIN files THEN files
  ELSE WriteFile(files, name, <<>>)

\* what the catch block of handleScissorClick leaves of the cut
CutContinuesAfterFailure(c) == {[c EXCEPT !.phase = "resize"]}
CutAfterFailure(c) == {}

\* toBlob callback: one of the awaits rejects, the catch block alerts
CutWriteFail(c, step) ==
  /\ c \in cuts /\ c.phase = "write"
  /\ sink' = [sink EXCEPT ![c.dir] = FailedWrite(@, generateFilename(now), step)]
  /\ cuts' = (cuts \ {c}) \cup CutAfterFailure(c)
  /\ ops' = ops
  /\ UNCHANGED <<view, env>>
  /\ last' = [op |-> "cutWriteFail", cut |-> c, alert |-> TRUE, step |-> step,
              onImageSaved |-> None, timers |-> timers,
              same |-> (canvas = c.pre /\ canvasHeight = c.h)]
  /\ UNCHANGED <<directoryHandle, backgroundColor, canvasHeight, canvas, ctx,
       canUndo, hoveredScissorY, cutAnimation, canvasOffsetY, isDrawing,
       isExtending, needsExtension, historyRef, skipBackgroundFillRef,
       pendingRestoreRef, autoSaveTimeoutRef, timers, saves, loads, exts,
       animTimers, now, shadow>>

\* toBlob callback called with null: it returns at once
CutNoBlob(c) ==
  /\ c \in cuts /\ c.phase = "write"
  /\ cuts' = cuts \ {c}
  /\ ops' = ops
  /\ UNCHANGED <<view, env>>
  /\ last' = [op |-> "cutNoBlob", cut |-> c, alert |-> FALSE]
  /\ UNCHANGED <<directoryHandle, backgroundColor, canvasHeight, canvas, ctx,
       canUndo, hoveredScissorY, cutAnimation, canvasOffsetY, isDrawing,
       isExtending, needsExtension, historyRef, skipBackgroundFillRef,
       pendingRestoreRef, autoSaveTimeoutRef, timers, saves, loads, exts,
       animTimers, sink, now, shadow>>

\* the setTimeout(100) callback after a successful write
CutResize(c) ==
  /\ c \in cuts /\ c.phase = "resize"
  /\ SetCanvasHeight(CutHeight(c.h, c.y))
  /\ cuts' = (cuts \ {c}) \cup
       {[c EXCEPT !.phase = "rewrite",
                  !.ok = (c.ok /\ canvas = c.pre /\ canvasHeight = c.h)]}
  /\ ops' = ops
  /\ UNCHANGED <<view, env>>
  /\ last' = Ev("cutResize")
  /\ UNCHANGED <<directoryHandle, backgroundColor, canUndo, hoveredScissorY,
       cutAnimation, canvasOffsetY, isDrawing, isExtending, needsExtension,
       historyRef, autoSaveTimeoutRef, timers, saves, loads, exts, animTimers,
       sink, now, shadow>>

\* the nested setTimeout(0) callback: fill, put the lower piece, schedule
\* the autosave, arm the auto-extension
CutRewrite(c) ==
  /\ c \in cuts /\ c.phase = "rewrite"
  /\ canvas' = PutImageData(FillRect(canvas, CutHeight(c.h, c.y), c.bg), c.lower)
  /\ scheduleAutoSave(c.dir)
  /\ cuts' = (cuts \ {c}) \cup
       (IF CutHeight(c.h, c.y) < MIN_VIABLE_HEIGHT
        THEN {[c EXCEPT !.phase = "autoextend"]} ELSE {})
  /\ ops' = ops
  /\ UNCHANGED <<view, env>>
  /\ last' = [op |-> "cutRewrite", cut |-> c,
              clean |-> (c.ok /\ canvasHeight = CutHeight(c.h, c.y)
                         /\ canvas = FillRect(Blank(canvasHeight), canvasHeight, c.bg))]
  /\ UNCHANGED <<directoryHandle, backgroundColor, canvasHeight, ctx, canUndo,
       hoveredScissorY, cutAnimation, canvasOffsetY, isDrawing, isExtending,
       needsExtension, historyRef, skipBackgroundFillRef, pendingRestoreRef,
       saves, loads, exts, animTimers, sink, now, shadow>>

\* the setTimeout(100) callback that calls the extendCanvas the click's
\* closure captured
CutAutoExtend(c) ==
  /\ c \in cuts /\ c.phase = "autoextend"
  /\ extendCanvas(c.h, c.dir, c.bg, "autoExtend")
  /\ cuts' = cuts \ {c}
  /\ ops' = ops
  /\ UNCHANGED <<view, env>>
  /\ last' = [op |-> "cutAutoExtend", cut |-> c, blocked |-> isExtending]
  /\ UNCHANGED <<directoryHandle, backgroundColor, hoveredScissorY, cutAnimation,
       canvasOffsetY, isDrawing, needsExtension, autoSaveTimeoutRef,
       timers, saves, loads, animTimers, sink, now>>

\* ------------------------------------------------------------ background
BackgroundColors == {Bg, AltBg}

\* the backgroundColor prop changes: the background effect runs again
BackgroundChange(bg) ==
  /\ bg # backgroundColor
  /\ backgroundColor' = bg
  /\ canvas' = BackgroundEffect(canvas, canvasHeight, bg, skipBackgroundFillRef)
  /\ skipBackgroundFillRef' = FALSE
  /\ ops' = ops
  /\ UNCHANGED <<view, env>>
  /\ last' = [op |-> "backgroundChange", canvas |-> canvas, history |-> historyRef]
  /\ UNCHANGED <<directoryHandle, canvasHeight, ctx, canUndo, hoveredScissorY,
       cutAnimation, canvasOffsetY, isDrawing, isExtending, needsExtension,
       historyRef, pendingRestoreRef, autoSaveTimeoutRef, timers, saves, loads,
       exts, cuts, animTimers, sink, now, shadow>>

\* ------------------------------------------------------------ target switch
KeepHistory == historyRef
\* historyRef.current = [] of the directory effect
EmptyHistory == <<>>

\* directoryHandle changes: the background effect, the directory effect and
\* (when it became null) the effect that drops the hovered boundary run
DirectoryChange(d) ==
  /\ d # directoryHandle
  /\ directoryHandle' = d
  /\ canvas' = BackgroundEffect(canvas, canvasHeight, backgroundColor, skipBackgroundFillRef)
  /\ skipBackgroundFillRef' = FALSE
  /\ timers' = IF autoSaveTimeoutRef # NoTimer
               THEN ClearTimeout(timers, autoSaveTimeoutRef) ELSE timers
  /\ autoSaveTimeoutRef' = NoTimer
  /\ historyRef' = EmptyHistory
  /\ canUndo' = FALSE
  /\ shadow' = <<>>
  /\ loads' = IF d # NULL /\ CURRENT_CANVAS_FILENAME \in DOMAIN sink[d]
              THEN loads \cup {[dir |-> d, image |-> sink[d][CURRENT_CANVAS_FILENAME]]}
              ELSE loads
  /\ ops' = ops
  /\ UNCHANGED <<view, env>>
  /\ last' = [op |-> "directoryChange", timers |-> timers, history |-> historyRef]
  /\ hoveredScissorY' = IF d = NULL THEN -1 ELSE hoveredScissorY
  /\ UNCHANGED <<backgroundColor, canvasHeight, ctx,
       cutAnimation, canvasOffsetY, isDrawing, isExtending, needsExtension,
       pendingRestoreRef, saves, exts, cuts, animTimers, sink, now>>

\* img.onload of loadCanvas
LoadDone(l) ==
  /\ l \in loads
  /\ loads' = loads \ {l}
  /\ canvas' = DrawImage(canvas, l.image)
  /\ ops' = ops
  /\ UNCHANGED <<view, env>>
  /\ last' = [op |-> "loadDone", image |-> l.image,
              pristine |-> (historyRef = <<>> /\ exts = {} /\ cuts = {} /\ ~isDrawing
                            /\ canvas = FillRect(Blank(canvasHeight), canvasHeight,
                                                 backgroundColor))]
  /\ UNCHANGED <<directoryHandle, backgroundColor, canvasHeight, ctx, canUndo,
       hoveredScissorY, cutAnimation, canvasOffsetY, isDrawing, isExtending,
       needsExtension, historyRef, skipBackgroundFillRef, pendingRestoreRef,
       autoSaveTimeoutRef, timers, saves, exts, cuts, animTimers, sink, now, shadow>>

\* ------------------------------------------------------------ view
\* 0.25, 0.5 and 2 in units of 1/ScaleUnit
ZOOM_STEP == ScaleUnit \div 4
ZOOM_MIN == ScaleUnit \div 2
ZOOM_MAX == 2 * ScaleUnit

\* Number(z.toFixed(2)) for z >= 0 in units of 1/ScaleUnit
ToFixed2(z) == ((z + (ScaleUnit \div 200)) \div (ScaleUnit \div 100)) * (ScaleUnit \div 100)

ZoomInNoClamp(prev) == ToFixed2(prev + ZOOM_STEP)

\* the updater of the '+' key and of the zoom-in button
ZoomInStep(prev) == Min(ZOOM_MAX, ToFixed2(prev + ZOOM_STEP))

\* the updater of the '-' key and of the zoom-out button
ZoomOutStep(prev) == Max(ZOOM_MIN, ToFixed2(prev - ZOOM_STEP))

\* where a zoom action comes from: the keyboard handler or the button
ZoomVia == {"key", "button"}

ZoomIn(via) ==
  /\ zoom' = ZoomInStep(zoom)
  /\ last' = [op |-> "zoomIn", via |-> via, was |-> zoom]
  /\ UNCHANGED <<progVars, responsiveScale, env, shadow, ops>>

ZoomOut(via) ==
  /\ zoom' = ZoomOutStep(zoom)
  /\ last' = [op |-> "zoomOut", via |-> via, was |-> zoom]
  /\ UNCHANGED <<progVars, responsiveScale, env, shadow, ops>>

\* the '0' key and the click on the percentage
ZoomReset(via) ==
  /\ zoom' = ScaleUnit
  /\ last' = [op |-> "zoomReset", via |-> via, was |-> zoom]
  /\ UNCHANGED <<progVars, responsiveScale, env, shadow, ops>>

\* window.innerWidth values a resize can bring
ViewportWidths == {480, 680, 1024}

\* updateScale of the resize effect
ScaleFor(viewportWidth) ==
  IF viewportWidth < 900
  THEN Min(((viewportWidth - 80) * ScaleUnit) \div CANVAS_WIDTH, ScaleUnit)
  ELSE ScaleUnit

Resize(viewportWidth) ==
  /\ responsiveScale' = ScaleFor(viewportWidth)
  /\ responsiveScale' # responsiveScale
  /\ last' = [op |-> "resize", width |-> viewportWidth]
  /\ UNCHANGED <<progVars, zoom, env, shadow, ops>>

\* ------------------------------------------------------------ clock
\* the wall clock advances by one tick
Tick ==
  /\ now < MaxTicks
  /\ now' = now + 1
  /\ ops' = ops
  /\ UNCHANGED <<view, env>>
  /\ last' = Ev("tick")
  /\ UNCHANGED <<directoryHandle, backgroundColor, canvasHeight, canvas, ctx,
       canUndo, hoveredScissorY, cutAnimation, canvasOffsetY, isDrawing,
       isExtending, needsExtension, historyRef, skipBackgroundFillRef,
       pendingRestoreRef, autoSaveTimeoutRef, timers, saves, loads, exts, cuts,
       animTimers, sink, shadow>>

\* ------------------------------------------------------------ fresh session
\* the page is loaded again and CanvasWorkspace mounts with directory d:
\* state and refs start over, timers and writes of the old page are gone,
\* the files stay; the background effect and the directory effect run
Mount(d) ==
  /\ directoryHandle' = d
  /\ canvasHeight' = INITIAL_CANVAS_HEIGHT
  /\ canvas' = BackgroundEffect(Blank(INITIAL_CANVAS_HEIGHT), INITIAL_CANVAS_HEIGHT,
                                backgroundColor, FALSE)
  /\ ctx' = ResetCtx
  /\ canUndo' = FALSE
  /\ hoveredScissorY' = -1
  /\ cutAnimation' = None
  /\ canvasOffsetY' = 0
  /\ isDrawing' = FALSE
  /\ isExtending' = FALSE
  /\ needsExtension' = FALSE
  /\ historyRef' = EmptyHistory
  /\ skipBackgroundFillRef' = FALSE
  /\ pendingRestoreRef' = None
  /\ autoSaveTimeoutRef' = NoTimer
  /\ timers' = {}
  /\ saves' = {}
  /\ exts' = {}
  /\ cuts' = {}
  /\ animTimers' = 0
  /\ shadow' = <<>>
  /\ loads' = IF CURRENT_CANVAS_FILENAME \in DOMAIN sink[d]
              THEN {[dir |-> d, image |-> sink[d][CURRENT_CANVAS_FILENAME]]}
              ELSE {}
  /\ ops' = ops
  /\ zoom' = ScaleUnit
  /\ UNCHANGED <<responsiveScale, env>>
  /\ last' = Ev("mount")
  /\ UNCHANGED <<backgroundColor, sink, now>>

\* ------------------------------------------------------------ specifications
\* where a pointer can be on a canvas of height h
UpperYs == {75, 425}

\* nothing of a stroke, a cut or an extension is under way
Quiet == cuts = {} /\ exts = {} /\ ~isDrawing

\* Spec: strokes in the upper part, cuts with their follow-up, and undo.
\* A stroke or a cut starts when nothing else is under way and at most
\* MaxCutOps of them start in a run; undo comes at any time.
CutStrokeDown ==
  ops < MaxCutOps /\ Quiet /\ \E y \in UpperYs : handlePointerDown(y, Pen)

CutStrokeMove == \E y \in UpperYs : handlePointerMove(y)

CutRailMove == Quiet /\ \E y \in RailYs : RailMove(y)

CutRailClick == ops < MaxCutOps /\ Quiet /\ handleScissorClick(hoveredScissorY)

Next ==
  \/ CutStrokeDown
  \/ CutStrokeMove
  \/ handlePointerUp
  \/ CutRailMove
  \/ CutRailClick
  \/ AnimEnd
  \/ \E c \in cuts : CutWriteOk(c)
  \/ \E c \in cuts, step \in WriteSteps : CutWriteFail(c, step)
  \/ \E c \in cuts : CutResize(c)
  \/ \E c \in cuts : CutRewrite(c)
  \/ \E c \in cuts : CutAutoExtend(c)
  \/ \E e \in exts : ExtTimeout(e)
  \/ \E e \in exts : ExtLoad(e)
  \/ handleUndo

Spec == Init /\ [][Next]_vars

\* SpecHist: a few strokes and extensions, then clears up to MaxOps
\* snapshot-pushing operations in all, with undo at any time.
EdgeYs(h) == {75, h - 75}

HistStrokeDown ==
  /\ ops < MaxHistOps /\ ~isDrawing
  /\ \E y \in EdgeYs(canvasHeight) : handlePointerDown(y, Pen)

HistStrokeMove == \E y \in EdgeYs(canvasHeight) : handlePointerMove(y)

HistExtend == ops < MaxHistOps /\ ~isDrawing /\ ExtendButton

HistClear == ops < MaxOps /\ Quiet /\ handleClear

NextHist ==
  \/ HistStrokeDown
  \/ HistStrokeMove
  \/ handlePointerUp
  \/ HistExtend
  \/ HistClear
  \/ \E e \in exts : ExtTimeout(e)
  \/ \E e \in exts : ExtLoad(e)
  \/ handleUndo
  \/ handleUndoEmpty

SpecHist == Init /\ [][NextHist]_vars

\* SpecSwitch: edits, the autosave, and changes of the directory, also
\* while an extension is in flight.
SwitchStrokeDown ==
  /\ ops < MaxEditOps /\ ~isDrawing
  /\ handlePointerDown(75, Pen)

SwitchStrokeMove == handlePointerMove(75)

SwitchExtend == ops < MaxEditOps /\ ~isDrawing /\ ExtendButton

SwitchClear == ops < MaxEditOps /\ ~isDrawing /\ handleClear

SwitchAutoSaveFire ==
  /\ saves = {} /\ loads = {}
  /\ \E t \in timers : AutoSaveFire(t)

SwitchDirectoryChange ==
  /\ ~isDrawing /\ saves = {} /\ loads = {}
  /\ \E d \in Dirs : DirectoryChange(d)

\* undo tried right after the directory changed
SwitchUndoEmpty == last.op = "directoryChange" /\ handleUndoEmpty

NextSwitch ==
  \/ SwitchStrokeDown
  \/ SwitchStrokeMove
  \/ handlePointerUp
  \/ SwitchExtend
  \/ SwitchClear
  \/ \E e \in exts : ExtTimeout(e)
  \/ \E e \in exts : ExtLoad(e)
  \/ handleUndo
  \/ SwitchUndoEmpty
  \/ SwitchAutoSaveFire
  \/ \E s \in saves : SaveOk(s)
  \/ \E s \in saves : SaveFail(s)
  \/ SwitchDirectoryChange
  \/ \E l \in loads : LoadDone(l)

SpecSwitch == Init /\ [][NextSwitch]_vars

\* SpecReload: edits and extensions, the autosave and its write, and the
\* page loaded again on the same directory.
ReloadStrokeDown ==
  /\ ops < MaxReloadOps /\ Quiet /\ loads = {}
  /\ \E y \in EdgeYs(canvasHeight) : handlePointerDown(y, Pen)

ReloadStrokeMove == \E y \in EdgeYs(canvasHeight) : handlePointerMove(y)

ReloadExtend == ops < MaxReloadOps /\ Quiet /\ loads = {} /\ ExtendButton

ReloadAutoSaveFire == saves = {} /\ \E t \in timers : AutoSaveFire(t)

ReloadMount == Quiet /\ saves = {} /\ last.op = "saveOk" /\ Mount(directoryHandle)

NextReload ==
  \/ ReloadStrokeDown
  \/ ReloadStrokeMove
  \/ handlePointerUp
  \/ ReloadExtend
  \/ \E e \in exts : ExtTimeout(e)
  \/ \E e \in exts : ExtLoad(e)
  \/ ReloadAutoSaveFire
  \/ \E s \in saves : SaveOk(s)
  \/ ReloadMount
  \/ \E l \in loads : LoadDone(l)

SpecReload == Init /\ [][NextReload]_vars

\* SpecClock: cuts one after another while the wall clock advances.
ClockRailMove == Quiet /\ \E y \in RailYs : RailMove(y)

ClockRailClick == ops < MaxCutOps /\ Quiet /\ handleScissorClick(hoveredScissorY)

NextClock ==
  \/ ClockRailMove
  \/ ClockRailClick
  \/ AnimEnd
  \/ \E c \in cuts : CutWriteOk(c)
  \/ \E c \in cuts : CutResize(c)
  \/ \E c \in cuts : CutRewrite(c)
  \/ \E c \in cuts : CutAutoExtend(c)
  \/ \E e \in exts : ExtTimeout(e)
  \/ \E e \in exts : ExtLoad(e)
  \/ Tick

SpecClock == Init /\ [][NextClock]_vars

\* SpecView: zoom and window size change between strokes and hovers on
\* the rail, the pointer given by its screen offset.
ScreenOffsets == {10, 101}

ViewZoomIn == ~isDrawing /\ \E via \in ZoomVia : ZoomIn(via)

ViewZoomOut == ~isDrawing /\ \E via \in ZoomVia : ZoomOut(via)

ViewZoomReset == ~isDrawing /\ \E via \in ZoomVia : ZoomReset(via)

ViewResize == ~isDrawing /\ \E w \in ViewportWidths : Resize(w)

ViewStrokeDown ==
  /\ ops < MaxViewOps /\ ~isDrawing
  /\ \E o \in ScreenOffsets : handlePointerDown(o, Pen)

ViewStrokeMove == \E o \in ScreenOffsets : handlePointerMove(o)

ViewRailMove == ~isDrawing /\ \E o \in ScreenOffsets : RailMove(o)

NextView ==
  \/ ViewZoomIn
  \/ ViewZoomOut
  \/ ViewZoomReset
  \/ ViewResize
  \/ ViewStrokeDown
  \/ ViewStrokeMove
  \/ handlePointerUp
  \/ ViewRailMove

SpecView == Init /\ [][NextView]_vars

\* SpecPersist: strokes and cuts with every outcome of their writes and of
\* the autosave's: success, a rejected step, no blob.
PersistStrokeDown ==
  /\ ops < MaxEditOps /\ Quiet
  /\ handlePointerDown(75, Pen)

PersistStrokeMove == handlePointerMove(75)

PersistAutoSaveFire == saves = {} /\ \E t \in timers : AutoSaveFire(t)

PersistRailMove == Quiet /\ \E y \in RailYs : RailMove(y)

PersistRailClick == ops < MaxEditOps /\ Quiet /\ handleScissorClick(hoveredScissorY)

NextPersist ==
  \/ PersistStrokeDown
  \/ PersistStrokeMove
  \/ handlePointerUp
  \/ PersistAutoSaveFire
  \/ \E s \in saves : SaveOk(s)
  \/ \E s \in saves : SaveFail(s)
  \/ \E s \in saves : SaveNoBlob(s)
  \/ PersistRailMove
  \/ PersistRailClick
  \/ AnimEnd
  \/ \E c \in cuts : CutWriteOk(c)
  \/ \E c \in cuts, step \in WriteSteps : CutWriteFail(c, step)
  \/ \E c \in cuts : CutNoBlob(c)
  \/ \E c \in cuts : CutResize(c)
  \/ \E c \in cuts : CutRewrite(c)
  \/ \E c \in cuts : CutAutoExtend(c)
  \/ \E e \in exts : ExtTimeout(e)
  \/ \E e \in exts : ExtLoad(e)

SpecPersist == Init /\ [][NextPersist]_vars

\* SpecStroke: strokes at the top and near the bottom of the buffer, ended
\* by any of the three pointer events (which also arrive with no stroke under
\* way), and the extensions they start, with every outcome.
StrokeEnd == \E via \in PointerEnds : PointerEnd(via)

StrokeBackground == Quiet /\ \E bg \in BackgroundColors : BackgroundChange(bg)

NextStroke ==
  \/ HistStrokeDown
  \/ HistStrokeMove
  \/ StrokeEnd
  \/ \E e \in exts : ExtTimeout(e)
  \/ \E e \in exts : ExtNoContext(e)
  \/ \E e \in exts : ExtLoad(e)
  \/ \E e \in exts : ExtError(e)
  \/ handleUndo
  \/ StrokeBackground

SpecStroke == Init /\ [][NextStroke]_vars

\* the timer of an extension fires and its image loads or fails to
StrokeFairness ==
  /\ WF_vars(\E e \in exts : ExtTimeout(e) \/ ExtNoContext(e))
  /\ WF_vars(\E e \in exts : ExtLoad(e) \/ ExtError(e))

SpecStrokeFair == SpecStroke /\ StrokeFairness

\* SpecCapture: strokes, clears, extensions and cuts, with undo, while the
\* read of captureSnapshot fails at times.
NextCapture ==
  \/ Quiet /\ \E throws \in BOOLEAN : ReadFailure(throws)
  \/ SwitchStrokeDown
  \/ SwitchStrokeMove
  \/ handlePointerUp
  \/ SwitchClear
  \/ SwitchExtend
  \/ \E e \in exts : ExtTimeout(e)
  \/ \E e \in exts : ExtLoad(e)
  \/ CutRailMove
  \/ CutRailClick
  \/ AnimEnd
  \/ \E c \in cuts : CutWriteOk(c)
  \/ \E c \in cuts : CutResize(c)
  \/ \E c \in cuts : CutRewrite(c)
  \/ \E c \in cuts : CutAutoExtend(c)
  \/ handleUndo

SpecCapture == Init /\ [][NextCapture]_vars

\* SpecIdentity: zooming, ordinary edits and changes of the directory.
NextIdentity ==
  \/ ViewZoomIn
  \/ ViewZoomOut
  \/ ViewZoomReset
  \/ SwitchDirectoryChange
  \/ SwitchStrokeDown
  \/ SwitchStrokeMove
  \/ handlePointerUp
  \/ SwitchClear
  \/ SwitchExtend
  \/ \E e \in exts : ExtTimeout(e)
  \/ \E e \in exts : ExtLoad(e)
  \/ handleUndo

SpecIdentity == Init /\ [][NextIdentity]_vars

\* SpecRail: the pointer rests on the rail while the Extend button and
\* undo change the height, then the rail is clicked.
RailOffsets == {300, 1175}

RailExtend == ops < MaxRailOps /\ ExtendButton

RailHover == Quiet /\ \E o \in RailOffsets : RailMove(o)

RailClick == ops < MaxRailOps /\ Quiet /\ handleScissorClick(hoveredScissorY)

NextRail ==
  \/ RailExtend
  \/ \E e \in exts : ExtTimeout(e)
  \/ \E e \in exts : ExtLoad(e)
  \/ RailHover
  \/ handleUndo
  \/ RailClick
  \/ AnimEnd
  \/ \E c \in cuts : CutWriteOk(c)
  \/ \E c \in cuts : CutResize(c)
  \/ \E c \in cuts : CutRewrite(c)
  \/ \E c \in cuts : CutAutoExtend(c)

SpecRail == Init /\ [][NextRail]_vars

\* ------------------------------------------------------------ claims
Range(f) == {f[i] : i \in DOMAIN f}

\* the boundary of cut c lies within the margins of the buffer it cuts
ValidBoundary(c) == MIN_MARGIN <= c.y /\ c.y <= c.h - MIN_MARGIN

\* C1: cut conservation.  For a buffer of height H and a boundary y with
\* 50 <= y <= H-50: when the sink write of the cut succeeds, the file holds an
\* image of height y whose rows are the pre-cut rows [0,y); and when the cut
\* completes with the buffer not otherwise changed since the click, the
\* buffer has height H-y and its rows are the pre-cut rows [y,H).
CutConservation ==
  /\ (last.op = "cutWriteOk" /\ ValidBoundary(last.cut)) =>
       LET c == last.cut
           name == last.onImageSaved[1]
       IN /\ name \in DOMAIN sink[c.dir]
          /\ Len(sink[c.dir][name]) * RowPx = c.y
          /\ sink[c.dir][name] = SubSeq(c.pre, 1, Rows(c.y))
  /\ (last.op = "cutRewrite" /\ last.clean /\ ValidBoundary(last.cut)) =>
       LET c == last.cut
       IN /\ canvasHeight = c.h - c.y
          /\ Len(canvas) * RowPx = c.h - c.y
          /\ canvas = SubSeq(c.pre, Rows(c.y) + 1, Rows(c.h))

\* a cut has completed undisturbed on a buffer with ink above and below the
\* boundary
CutConservationWitness ==
  /\ last.op = "cutRewrite" /\ last.clean /\ ValidBoundary(last.cut)
  /\ Pen \in Range(last.cut.upper)
  /\ Pen \in Range(canvas) /\ Bg \in Range(canvas)

\* C2: cut atomicity under failure.  When a step of the cut's sink write
\* fails, the buffer has the height and rows it had at the click (nothing
\* else having changed it), no autosave timer was started, onImageSaved was
\* not called, and no later step of that cut is pending: only a cut whose
\* write succeeded ever reaches the resize, rewrite or auto-extension.
CutFailureAtomic ==
  /\ \A c \in cuts : c.phase # "write" => c.wrote
  /\ last.op = "cutWriteFail" =>
       /\ last.same => (canvas = last.cut.pre /\ canvasHeight = last.cut.h)
       /\ timers = last.timers
       /\ last.onImageSaved = None
       /\ last.alert

\* a write has failed after the file was created, on a buffer with ink on it
CutFailureWitness ==
  /\ last.op = "cutWriteFail" /\ last.same /\ last.step = "write"
  /\ Pen \in Range(canvas)
  /\ cuts = {}

\* C3: post-cut auto-extension.  When the extension armed by a cut whose
\* remainder H-y is below 800 has completed, nothing else having changed the
\* buffer, the buffer height is (H-y)+400.
AutoExtensionHeight ==
  (last.op = "extLoad" /\ last.ext.origin = "autoExtend" /\ last.steady) =>
     canvasHeight = last.ext.preHeight + CANVAS_EXTEND_HEIGHT

\* C4: undo round trip.  An undo made when nothing is under way, popping the
\* snapshot of a stroke, a clear or an extension, leaves the buffer with the
\* height and rows it had just before that operation.
UndoRoundTrip ==
  (last.op = "undo" /\ last.quiet
     /\ last.was.by \in {"stroke", "clear", "button", "strokeEnd", "autoExtend"}) =>
       /\ canvasHeight = last.was.height
       /\ canvas = last.was.imageData

\* C10: a cut is undoable.  An undo that pops the snapshot of a cut, or of the
\* extension that followed it, pops a state the buffer had at that moment,
\* and made when nothing is under way it leaves the buffer in that state.
CutUndoable ==
  (last.op = "undo" /\ last.was.by \in {"cut", "autoExtend"}) =>
       /\ last.snapshot.height = last.was.height
       /\ last.snapshot.imageData = last.was.imageData
       /\ last.quiet => (canvasHeight = last.was.height /\ canvas = last.was.imageData)

\* C5. The undo history never holds more than MAX_HISTORY snapshots; what it
\* holds are the most recent pushes in push order (the oldest is the one
\* evicted, the newest the one popped), so once more than MAX_HISTORY
\* operations have pushed, the states before the oldest kept push are not
\* in the history any more.
HistoryBound ==
  /\ Len(historyRef) <= MAX_HISTORY
  /\ Len(historyRef) <= Len(shadow)
  /\ \A i \in 1..Len(historyRef) :
        LET s == shadow[Len(shadow) - Len(historyRef) + i]
        IN s.by # "autoExtend" =>
             /\ historyRef[i].height = s.height
             /\ historyRef[i].imageData = s.imageData

\* MAX_HISTORY + 1 operations, MAX_HISTORY undos, and an undo that finds
\* the history empty although the first operation is not undone
HistoryBoundWitness ==
  /\ last.op = "undoEmpty"
  /\ Len(shadow) = 1
  /\ Len(historyRef) = 0
  /\ canvas # shadow[1].imageData

\* C6. An extension that runs to completion on a buffer of height H ends at
\* height H + CANVAS_EXTEND_HEIGHT with rows [0, H) as they were and the
\* rows below in the background colour.
ExtensionPreserves ==
  (last.op = "extLoad" /\ last.steady) =>
    /\ canvasHeight = last.ext.preHeight + CANVAS_EXTEND_HEIGHT
    /\ Len(canvas) = Rows(canvasHeight)
    /\ \A r \in 1..Rows(last.ext.preHeight) : canvas[r] = last.ext.pre[r]
    /\ \A r \in (Rows(last.ext.preHeight) + 1)..Rows(canvasHeight) :
          canvas[r] = last.ext.bg

AutosaveSingleFlight ==
  /\ Cardinality(timers) <= 1
  /\ \A t \in timers : t.id = autoSaveTimeoutRef /\ t.delay = AUTOSAVE_DELAY
  /\ timers = {} => autoSaveTimeoutRef = NoTimer
  /\ last.op = "autoSaveFire" => timers = {}

\* handleClear schedules the autosave while a timer is pending
AutosaveSingleFlightWitness ==
  /\ last.op = "clear"
  /\ last.timers # {}
  /\ Cardinality(timers) = 1

\* C9. Right after the directory changes no autosave timer is pending, the
\* history is empty and canUndo is false, and with an empty history
\* handleUndo changes nothing.
TargetSwitchResets ==
  /\ last.op = "directoryChange" =>
       /\ timers = {}
       /\ autoSaveTimeoutRef = NoTimer
       /\ historyRef = <<>>
       /\ ~canUndo
  /\ historyRef = <<>> => ~ENABLED handleUndo

\* a change of directory with a timer pending and snapshots in the history
TargetSwitchWitness ==
  /\ last.op = "directoryChange"
  /\ last.timers # {}
  /\ Len(last.history) > 0

\* C11. When a fresh session has loaded the working file and nothing else
\* has touched the buffer, the buffer has the height and the rows of the
\* image that was saved.
SurvivesReload ==
  (last.op = "loadDone" /\ last.pristine) =>
    /\ canvasHeight = Len(last.image) * RowPx
    /\ canvas = last.image

\* C12. The name of a cut's file is that of the wall-clock second in which
\* the write is issued, in the form YYYY-MM-DD_HHmmss.png: two ticks of the
\* same second give the same name, and a cut written under a name that is
\* already there replaces that file.
FilenameDeterminism ==
  /\ \A t1, t2 \in 0..MaxTicks :
        (t1 \div TicksPerSecond = t2 \div TicksPerSecond)
          => generateFilename(t1) = generateFilename(t2)
  /\ last.op = "cutWriteOk" =>
       LET name == last.onImageSaved[1]
       IN /\ name = generateFilename(now)
          /\ Len(name) = 21
          /\ DOMAIN sink[last.cut.dir] = DOMAIN last.files \cup {name}
          /\ sink[last.cut.dir][name] = last.cut.upper

\* a second cut written in the same second as the first, over its file
FilenameCollisionWitness ==
  /\ last.op = "cutWriteOk"
  /\ last.onImageSaved[1] \in DOMAIN last.files
  /\ last.files[last.onImageSaved[1]] # last.cut.upper
  /\ Cardinality(DOMAIN sink[last.cut.dir]) = 1

\* C13. Zoom is always between 0.5 and 2 and a multiple of 0.25; zooming in
\* at 2 and zooming out at 0.5 leave it as it is, and a reset makes it 1.
ZoomInRange ==
  /\ ZOOM_MIN <= zoom /\ zoom <= ZOOM_MAX
  /\ zoom % ZOOM_STEP = 0
  /\ (last.op = "zoomIn" /\ last.was = ZOOM_MAX) => zoom = ZOOM_MAX
  /\ (last.op = "zoomIn" /\ last.was < ZOOM_MAX) => zoom = last.was + ZOOM_STEP
  /\ (last.op = "zoomOut" /\ last.was = ZOOM_MIN) => zoom = ZOOM_MIN
  /\ (last.op = "zoomOut" /\ last.was > ZOOM_MIN) => zoom = last.was - ZOOM_STEP
  /\ last.op = "zoomReset" => zoom = ScaleUnit

\* zoom-in pressed at the maximum
ZoomInRangeWitness ==
  last.op = "zoomIn" /\ last.was = ZOOM_MAX /\ zoom = ZOOM_MAX

\* C14. Whenever the rail click calls handleScissorClick(y) on a buffer of
\* height H, 50 <= y <= H - 50.
BoundaryInRange ==
  last.op = "scissorClick" =>
    (MIN_MARGIN <= last.y /\ last.y <= last.h - MIN_MARGIN)

\* C15. A cut requested with y outside [50, H - 50] is rejected before it
\* changes anything: no snapshot is pushed, no cut is started and so nothing
\* is written, and the buffer is as it was.
DefensiveRejection ==
  /\ (last.op = "scissorClick"
        /\ ~(MIN_MARGIN <= last.y /\ last.y <= last.h - MIN_MARGIN)) =>
       /\ historyRef = last.history
       /\ cuts = {}
       /\ cutAnimation = None
  /\ \A c \in cuts : ValidBoundary(c)

\* nothing of a cut or of an extension is still to run
NothingInFlight == cuts = {} /\ exts = {} /\ ~isExtending /\ ~isDrawing

\* C16. With no cut and no extension in flight, the buffer height is at
\* least MIN_VIABLE_HEIGHT.
MinimumHeight == NothingInFlight => canvasHeight >= MIN_VIABLE_HEIGHT

\* the zoom and responsiveScale values the round trip is stated for
ListedScales ==
  /\ zoom \in {ScaleUnit \div 2, ScaleUnit, (3 * ScaleUnit) \div 2, 2 * ScaleUnit}
  /\ responsiveScale \in {ScaleUnit \div 2, ScaleUnit}

\* the distance, in 1/SubPx screen pixel, between the screen offset of the
\* last pointer event and the screen position of buffer coordinate y
RoundTripError(y) ==
  Abs(BufferToScreen(y, zoom, responsiveScale) - last.offset * SubPx)

\* C17 as stated. The buffer coordinate of a stroke point and the one the
\* rail keeps for the cut are the screen offset divided by
\* zoom * responsiveScale: multiplied back, each gives the screen offset
\* (to one unit of the 1/SubPx grid), for the listed zooms and scales.
CoordinateRoundTrip ==
  ListedScales =>
    /\ (last.op \in {"pointerDown", "pointerMove"}) => RoundTripError(ctx.pt) <= 1
    /\ last.op = "railMove" => RoundTripError(hoveredScissorY * SubPx) <= 1

\* half a buffer pixel on the screen, in 1/SubPx screen pixel
HalfPixelOnScreen == (ScaleProduct(zoom, responsiveScale) * SubPx) \div (2 * ScaleUnit)

\* C17, amended. A stroke point is the screen offset divided by
\* zoom * responsiveScale and multiplied back gives the screen offset; the
\* rail's coordinate is that quotient clamped to [50, H - 50] and rounded to
\* a whole pixel, and where the clamp did not act it gives the screen offset
\* back to within half a buffer pixel.
CoordinateMapping ==
  ListedScales =>
    /\ (last.op \in {"pointerDown", "pointerMove"}) => RoundTripError(ctx.pt) <= 1
    /\ last.op = "railMove" =>
         /\ MIN_MARGIN <= hoveredScissorY
         /\ hoveredScissorY <= canvasHeight - MIN_MARGIN
         /\ (MIN_MARGIN < hoveredScissorY /\ hoveredScissorY < canvasHeight - MIN_MARGIN)
              => RoundTripError(hoveredScissorY * SubPx) <= HalfPixelOnScreen + 1

\* the rail hovered at screen offset 101 with zoom 1.5 on a half-scale
\* window (134.67 in the buffer, kept as 135), and a stroke begun there
CoordinateMappingWitness ==
  /\ last.op = "railMove" /\ last.offset = 101
  /\ zoom = (3 * ScaleUnit) \div 2 /\ responsiveScale = ScaleUnit \div 2
  /\ hoveredScissorY = 135

\* the upper piece of cut c is in a file of its directory
Persisted(c) == \E n \in DOMAIN sink[c.dir] : sink[c.dir][n] = c.upper

\* C18. The steps of a cut up to the completion of its write (the click,
\* the end of the animation, the write succeeding or failing) leave the
\* buffer's height and pixels as they are; the resize and the rewrite are
\* steps of a cut whose write has succeeded and whose file is in the sink.
CutOrdering ==
  [][/\ (last'.op \in {"scissorClick", "animEnd", "cutWriteOk", "cutWriteFail"})
          => (canvas' = canvas /\ canvasHeight' = canvasHeight)
     /\ (last'.op = "cutResize")
          => \E c \in cuts : c.phase = "resize" /\ c.wrote /\ Persisted(c)
     /\ (last'.op = "cutRewrite")
          => \E c \in cuts : c.phase = "rewrite" /\ c.wrote /\ Persisted(c)]_vars

\* a cut with ink in its upper piece has resized the buffer after its file
\* was written
CutOrderingWitness ==
  /\ last.op = "cutResize"
  /\ \E c \in cuts : /\ c.phase = "rewrite" /\ c.wrote /\ Persisted(c)
                      /\ canvasHeight = CutHeight(c.h, c.y)
                      /\ Pen \in Range(c.upper)

\* C19. When the write of a cut fails (the buffer being as it was at the
\* click), the history holds the entries it held before the click.
FailedCutHistory ==
  (last.op = "cutWriteFail" /\ last.same) => historyRef = last.cut.hist

\* C20. Whenever a write asked for by a cut or by the autosave fails, or
\* the encoding gives no blob, the user is notified.
PersistenceFailureSurfaced ==
  (last.op \in {"cutWriteFail", "cutNoBlob", "saveFail", "saveNoBlob"}) => last.alert

\* C21. A failing autosave write changes nothing but the write itself:
\* buffer height and pixels, the history, the extension guard and the
\* stroke session (isDrawing, the path, the bottom-margin flag) are as they
\* were, and so are the zoom and what the handlers can do next.
AutosaveFailureContained ==
  [][(last'.op = "saveFail")
       => UNCHANGED <<canvasHeight, canvas, historyRef, canUndo, isExtending,
                      isDrawing, ctx, needsExtension, zoom, cuts, exts, timers,
                      autoSaveTimeoutRef>>]_vars

\* an autosave write has failed in the middle of a stroke, with the history
\* not empty
AutosaveFailureWitness ==
  /\ last.op = "saveFail"
  /\ isDrawing /\ Len(historyRef) > 0

\* C22. Whichever of pointer-up, pointer-leave and pointer-cancel ends it,
\* the stroke session is idle afterwards; and a pointer-move that draws or
\* sets the bottom-margin flag happens only while a stroke is under way.
StrokeSessionNotStuck ==
  [][/\ (last'.op = "pointerEnd") => ~isDrawing'
     /\ (last'.op = "pointerMove") => isDrawing]_vars

\* a stroke ended by the pointer leaving the canvas
StrokeSessionWitness ==
  last.op = "pointerEnd" /\ last.via = "leave" /\ last.wasDrawing /\ ~isDrawing

StrokeEndTrigger ==
  (last.op = "pointerEnd" /\ last.wasDrawing) => (last.extend <=> last.touched)

MutationUndoable ==
  /\ last.op = "pointerDown" =>
       (Len(historyRef) > 0 /\ Last(historyRef) = Snapshot(canvas, canvasHeight))
  /\ (last.op = "pointerEnd" /\ last.extend /\ ~last.blocked) =>
       (Len(historyRef) > 0 /\ Last(historyRef).height = last.height)
  /\ last.op = "backgroundChange" =>
       (Len(historyRef) > 0 /\ Last(historyRef).imageData = last.canvas)

\* C27. Every snapshot in the history has the height the buffer had when it
\* was taken and the rows the buffer had then.
SnapshotIntegrity ==
  \A i \in 1..Len(historyRef) :
    LET j == Len(shadow) - Len(historyRef) + i
    IN /\ historyRef[i].height = shadow[j].height
       /\ historyRef[i].imageData = shadow[j].imageData

\* C28. When the read inside captureSnapshot fails, the history is what it
\* was before the operation, and the operation has gone on: the stroke has
\* started, the buffer is cleared and its autosave scheduled, the cut has
\* taken its upper piece and is writing, the extension has grown the buffer.
SnapshotFailureNoBlock ==
  getImageDataThrows =>
    /\ last.op = "pointerDown" =>
         /\ historyRef = last.history
         /\ isDrawing /\ ctx.pt # -1 /\ ctx.rows = {}
    /\ last.op = "clear" =>
         /\ historyRef = last.history
         /\ canvas = FillRect(Blank(canvasHeight), canvasHeight, backgroundColor)
         /\ \E t \in timers : t.id = autoSaveTimeoutRef
    /\ last.op = "scissorClick" =>
         /\ historyRef = last.history
         /\ cutAnimation # None
         /\ \E c \in cuts : /\ c.phase = "write" /\ c.y = last.y
                             /\ c.upper = UpperPiece(canvas, last.y)
    /\ (last.op = "extendCanvas" /\ ~last.blocked) =>
         /\ historyRef = last.history
         /\ isExtending /\ exts # last.exts
         /\ canvasHeight = ExtendedHeight(last.height)

\* a cut clicked while the read fails, on a buffer with a stroke to undo
SnapshotFailureWitness ==
  /\ getImageDataThrows
  /\ last.op = "scissorClick"
  /\ Len(historyRef) > 0 /\ historyRef = last.history
  /\ cuts # {}

\* C29. An undo with an empty history changes neither the buffer nor its
\* height nor the autosave timer, and canUndo is true exactly when the
\* history is not empty.
UndoEnabledFlag ==
  /\ [](canUndo <=> Len(historyRef) > 0)
  /\ [][(last'.op = "undoEmpty")
          => UNCHANGED <<canvas, canvasHeight, historyRef, canUndo, timers,
                         autoSaveTimeoutRef>>]_vars

\* undo pressed on the history a change of directory has just emptied, an
\* edit having been undoable before
UndoEmptyWitness ==
  last.op = "undoEmpty" /\ ~canUndo /\ Len(historyRef) = 0 /\ directoryHandle = "B"

\* C30. A change of the directory leaves zoom at 1 and the vertical offset
\* at 0; a stroke, a clear, an undo or an extension never changes zoom.
ViewportResetOnSwitch ==
  [][/\ (last'.op = "directoryChange") => (zoom' = ScaleUnit /\ canvasOffsetY' = 0)
     /\ (last'.op \in {"pointerDown", "pointerMove", "pointerUp", "clear", "undo",
                        "extendCanvas", "extTimeout", "extLoad"}) => zoom' = zoom]_vars

\* ---------------------------------------------------------------------
\* C32  No concurrent mutation: while a stroke session is Drawing, no
\* completion step of a cut (the resize, the rewrite of the lower piece)
\* and no completion step of an extension (the background fill, the
\* redraw of the held image) changes the buffer.
CompletionSteps == {"cutResize", "cutRewrite", "extTimeout", "extLoad"}

NoConcurrentMutation == [][isDrawing => last'.op \notin CompletionSteps]_vars

\* ---------------------------------------------------------------------
\* C33  No stale content crosses targets: every pending autosave timer and
\* every write in flight is for the selected target, and an extension that
\* redraws its held image into the buffer was started under the selected
\* target.
NoStaleContent ==
  /\ \A t \in timers : t.dir = directoryHandle
  /\ \A s \in saves : s.dir = directoryHandle
  /\ last.op = "extLoad" => last.ext.dir = directoryHandle

\* ---------------------------------------------------------------------
\* C34  The two-phase resize is never observed half-done: no autosave
\* serializes the buffer and no stroke snapshot captures it while an
\* extension has changed the height but not yet redrawn its held image, or
\* a cut has resized the buffer but not yet rewritten the lower piece.
ResizeHalfDone == exts # {} \/ \E c \in cuts : c.phase = "rewrite"

ResizeNeverObserved ==
  last.op \in {"autoSaveFire", "pointerDown"} => ~ResizeHalfDone

\* ---------------------------------------------------------------------
\* C36  A height change during an in-flight cut is not lost: when the
\* height H' found at the completion of the write differs from the height
\* at the click, the resize that follows makes the buffer H' - y high and
\* the piece held for the rewrite is rows [y, H') of the buffer.
HeightChangeKept ==
  [][(/\ last.op = "cutWriteOk" /\ last'.op = "cutResize"
      /\ canvasHeight # last.cut.h)
     => (/\ canvasHeight' = canvasHeight - last.cut.y
         /\ \A c \in cuts' :
              c.lower = GetImageData(canvas, last.cut.y, canvasHeight - last.cut.y))]_vars

\* ---------------------------------------------------------------------
\* SpecNoTarget: the directory is deselected and selected again between
\* ordinary edits, and the scissor handler is called with no directory.
NoTargetDirectoryChange ==
  /\ Quiet /\ saves = {} /\ loads = {}
  /\ \E d \in Dirs \cup {NULL} : DirectoryChange(d)

NoTargetClick ==
  /\ directoryHandle = NULL /\ ops < MaxEditOps /\ Quiet
  /\ \E y \in RailYs : handleScissorClick(y)

NextNoTarget ==
  \/ NoTargetDirectoryChange
  \/ NoTargetClick
  \/ SwitchStrokeDown
  \/ SwitchStrokeMove
  \/ handlePointerUp
  \/ SwitchClear
  \/ SwitchExtend
  \/ \E e \in exts : ExtTimeout(e)
  \/ \E e \in exts : ExtLoad(e)
  \/ handleUndo

SpecNoTarget == Init /\ [][NextNoTarget]_vars

\* C37  A cut without a persistence target is a no-op: with directoryHandle
\* null the scissor handler pushes no snapshot, starts no animation, holds no
\* cut, writes nothing and leaves height, pixels, history and the autosave
\* timer as they were; and no step taken with no target (a stroke end, a
\* clear, an undo, an extension's reload, each of which calls
\* scheduleAutoSave) starts an autosave timer.
CutWithoutTarget ==
  [][/\ (directoryHandle = NULL /\ last'.op = "scissorClick")
        => UNCHANGED <<historyRef, canUndo, cutAnimation, canvasOffsetY,
                       animTimers, cuts, sink, canvasHeight, canvas,
                       autoSaveTimeoutRef, timers>>
     /\ (directoryHandle = NULL /\ directoryHandle' = NULL)
        => UNCHANGED <<autoSaveTimeoutRef, timers, saves, sink>>]_vars

\* the handler has been called with no target after an edit made with no target
CutWithoutTargetWitness ==
  /\ directoryHandle = NULL /\ last.op = "scissorClick"
  /\ historyRef # <<>> /\ timers = {}

\* ---------------------------------------------------------------------
\* SpecSaved: strokes near the top and the bottom edge, undo, the
\* extension's callbacks (including its failures), the autosave timer and
\* the write of the working file.  Timers that are due fire, an image load
\* ends in onload or onerror, and a write that was started completes.
NextSaved ==
  \/ HistStrokeDown
  \/ HistStrokeMove
  \/ handlePointerUp
  \/ \E e \in exts : ExtTimeout(e)
  \/ \E e \in exts : ExtNoContext(e)
  \/ \E e \in exts : ExtLoad(e)
  \/ \E e \in exts : ExtError(e)
  \/ handleUndo
  \/ ReloadAutoSaveFire
  \/ \E s \in saves : SaveOk(s)

SpecSaved ==
  /\ Init /\ [][NextSaved]_vars
  /\ StrokeFairness
  /\ WF_vars(ReloadAutoSaveFire)
  /\ WF_vars(\E s \in saves : SaveOk(s))

\* the working-canvas file of the selected directory holds the buffer
WorkingFileCurrent ==
  /\ CURRENT_CANVAS_FILENAME \in DOMAIN sink[directoryHandle]
  /\ sink[directoryHandle][CURRENT_CANVAS_FILENAME] = canvas

\* C31  Edits are eventually persisted: once an edit has been made and no
\* stroke is in progress any more, the working-canvas file eventually
\* holds the buffer and goes on holding it, also when the stroke ended in
\* the bottom margin with the extension guard set or when the extension's
\* image failed to load.
EditsPersisted == <>[]((ops > 0 /\ ~isDrawing) => WorkingFileCurrent)

\* ---------------------------------------------------------------------
\* SpecOverlap: the rail is clicked again while an earlier cut is still in
\* flight (the hovered boundary stays set until a write completes), and
\* the wall clock advances between the writes.
OverlapClick ==
  /\ ops < MaxRailOps /\ exts = {} /\ ~isDrawing
  /\ handleScissorClick(hoveredScissorY)

NextOverlap ==
  \/ ClockRailMove
  \/ OverlapClick
  \/ AnimEnd
  \/ \E c \in cuts : CutWriteOk(c)
  \/ \E c \in cuts : CutResize(c)
  \/ \E c \in cuts : CutRewrite(c)
  \/ \E c \in cuts : CutAutoExtend(c)
  \/ \E e \in exts : ExtTimeout(e)
  \/ \E e \in exts : ExtLoad(e)
  \/ Tick

SpecOverlap == Init /\ [][NextOverlap]_vars

\* the cut images in the selected directory, and their heights added up
CutFiles == DOMAIN sink[directoryHandle] \ {CURRENT_CANVAS_FILENAME}

RECURSIVE HeightSum(_)
HeightSum(names) ==
  IF names = {} THEN 0
  ELSE LET n == CHOOSE m \in names : TRUE
       IN Len(sink[directoryHandle][n]) * RowPx + HeightSum(names \ {n})

\* C35  Conservation over overlapping cuts: when the last of the cuts has
\* rewritten the buffer and each click's image is in a file of its own,
\* the heights of the cut images and of the live buffer add up to the
\* height of the original buffer, and the live buffer holds the original
\* rows below the cut images: no row is persisted twice and none is lost.
OverlapConservation ==
  (/\ last.op = "cutRewrite" /\ exts = {}
   /\ \A c \in cuts : c.phase = "autoextend"
   /\ Cardinality(CutFiles) = Len(historyRef))
  => /\ HeightSum(CutFiles) + canvasHeight = INITIAL_CANVAS_HEIGHT
     /\ canvas = FillRect(Blank(canvasHeight), canvasHeight, backgroundColor)
====
